---------------------------- MODULE Spec2Model ----------------------------
(***************************************************************************)
(* CodeGenClient: the socket client of the code-generation extension.      *)
(*                                                                         *)
(* Two variants of the class exist in the repository.  Both have the same  *)
(* ensureConnection; they differ in sendRequest:                           *)
(*   "sentinel"  src/src/client.ts      socket.write(json + "\n"), the     *)
(*               exchange resolves when the buffer ends with a newline;    *)
(*   "halfclose" src/unnamed/part_000   socket.end(json), the exchange     *)
(*               resolves on the socket's 'end' event.                     *)
(* src/src/client.ts also exports sendToServer, which opens one socket     *)
(* per call, writes the request and resolves on 'end' (ServerSpec).        *)
(*                                                                         *)
(* One step of the model is one turn of the JavaScript event loop: a       *)
(* sendRequest call or one socket/timer event, together with every         *)
(* listener it invokes and every promise continuation it releases.         *)
(* net.Socket is the platform: a socket goes                               *)
(*   unused -> connecting -> open -> ended -> closed                       *)
(* and 'error' may be emitted while connecting, open or ended; 'close'     *)
(* directly follows 'error' in the same turn (state "errored").            *)
(***************************************************************************)
EXTENDS Naturals, Sequences, FiniteSets

MaxCalls == 3      \* sendRequest invocations under Spec
MaxConnCalls == 4  \* sendRequest invocations under ConnSpec (no data, no timers)
MaxFairCalls == 2  \* sendRequest invocations under FairSpec
MaxSockets == 3    \* sockets the manager may create
MaxBuf == 2        \* characters an exchange accumulates
MaxChunk == 1      \* characters of one 'data' event
MaxDataCalls == 1  \* sendRequest invocations under DataSpec
MaxDataChunk == 2  \* characters of one 'data' event under DataSpec
MaxDataBuf == 3    \* characters an exchange accumulates under DataSpec
MaxServerCalls == 2  \* sendToServer invocations under ServerSpec

Calls == 1..MaxConnCalls
Sockets == 1..MaxSockets

NL == "\n"
Chars == {"a", NL}
DataChars == {"a", "b", " ", NL}
\* a JSON text with a code field, delivered as a whole
CodeObj == "{\"code\":\"a\"}"
ServerChars == {"a", NL, CodeObj}
Whitespace == {" ", NL}

\* err.message of the platform's 'error' events: of a failed connect, and of
\* a failure on an established connection
ConnectErrTexts == {"ECONNREFUSED", "ETIMEDOUT"}
StreamErrTexts == {"ECONNRESET"}
ErrTexts == ConnectErrTexts \cup StreamErrTexts
\* err.message of writing to a socket whose send direction was ended
WriteAfterEnd == "write after end"

Variants == {"sentinel", "halfclose"}

VARIABLES
    variant,            \* which sendRequest is compiled in
    sock,               \* platform state of every socket
    client,             \* this.client (0: null)
    connectionPromise,  \* this.connectionPromise, by the socket it waits for (0: null)
    ex,                 \* per sendRequest call: position, listeners, buffer, outcome
    notified,           \* showErrorMessage calls: <<socket, its state then, err.message>>
    dropped             \* the current connection went away and no call was made since

vars == <<variant, sock, client, connectionPromise, ex, notified, dropped>>

-----------------------------------------------------------------------------
(* Strings are sequences of characters. *)

Chunks == UNION {[1..n -> Chars] : n \in 1..MaxChunk}
DataChunks == UNION {[1..n -> DataChars] : n \in 1..MaxDataChunk}
ServerChunks == UNION {[1..n -> ServerChars] : n \in 1..MaxChunk}

\* the characters of the chunks i..j of a sequence of chunks
RECURSIVE Concat(_, _, _)
Concat(w, i, j) == IF i > j THEN <<>> ELSE w[i] \o Concat(w, i + 1, j)

RECURSIVE TrimStart(_)
TrimStart(s) ==
    IF s # <<>> /\ Head(s) \in Whitespace THEN TrimStart(Tail(s)) ELSE s

RECURSIVE TrimEnd(_)
TrimEnd(s) ==
    IF s # <<>> /\ s[Len(s)] \in Whitespace
    THEN TrimEnd(SubSeq(s, 1, Len(s) - 1)) ELSE s

\* String.prototype.trim
Trim(s) == TrimEnd(TrimStart(s))

\* responseData.endsWith('\n')
EndsWithNL(s) == s # <<>> /\ s[Len(s)] = NL

-----------------------------------------------------------------------------
(* One sendRequest call.                                                   *)
(*   phase   "new"        not called yet                                   *)
(*           "connecting" suspended at await this.ensureConnection()       *)
(*           "exchange"   request written, response promise created        *)
(*           "caught"     ensureConnection rejected, catch block ran       *)
(*   outcome of the promise sendRequest returned: "none" while pending,    *)
(*           then "resolved" (result) or "rejected" (errMsg).              *)
(*   dataL, endL, errL, timer: the exchange's listeners and timer that     *)
(*           are still registered on socket sock.                          *)
(*   heard   the chunks the socket emitted as 'data' events from the write *)
(*           of the request until the outcome, in order.                   *)
(*   halfClosed  the request was transmitted with socket.end, which ends   *)
(*           the send direction.                                           *)
(*   late    handlers of this exchange invoked after its outcome.          *)
(*   prior   the exchanges on the same socket that had completed when      *)
(*           this one started.                                             *)
(*   intruded  a handler of this exchange was invoked, after its outcome,  *)
(*           while a later exchange was pending on the same socket.        *)

NewCall ==
    [phase |-> "new", sock |-> 0, outcome |-> "none", result |-> <<>>,
     errMsg |-> <<>>, resp |-> <<>>, dataL |-> FALSE, endL |-> FALSE,
     errL |-> FALSE, timer |-> FALSE, late |-> {}, prior |-> {},
     intruded |-> FALSE, heard |-> <<>>, halfClosed |-> FALSE]

Destroyed(s) == sock[s] \in {"closed", "errored"}

\* A promise settles once: resolve and reject of a settled promise do nothing.
resolve(e, v) ==
    IF e.outcome = "none"
    THEN [e EXCEPT !.outcome = "resolved", !.result = v] ELSE e

reject(e, m) ==
    IF e.outcome = "none"
    THEN [e EXCEPT !.outcome = "rejected", !.errMsg = m] ELSE e

TIMEOUT_MS == 120000

TimeoutMsg == <<"Server response timed out (", TIMEOUT_MS \div 1000, "s).">>
ConnErrPrefix == "Connection Error: Failed to connect to local server: "
CatchPrefix == "Failed to send request to local server: "
TransportPrefix == "Socket communication error during response: "
TransportPrefixSentinel == "Socket communication error: "

\* The failure kinds of the specification, read off the error message.
Kind(e) ==
    CASE e.outcome = "none" -> "none"
      [] e.outcome = "resolved" -> "success"
      [] e.errMsg = TimeoutMsg -> "timeout"
      [] Head(e.errMsg) \in {TransportPrefix, TransportPrefixSentinel} -> "transport"
      [] Len(e.errMsg) >= 2 /\ e.errMsg[2] = ConnErrPrefix -> "connection"
      [] OTHER -> "other"

-----------------------------------------------------------------------------
(* sendRequest, half-close variant: the listeners of one exchange. *)

\* a data listener that puts the new chunk in front of the buffer
dataListenerPrepends(e, data) == [e EXCEPT !.resp = data \o @]

dataListener(e, data) == [e EXCEPT !.resp = @ \o data]

\* cleanup that detaches everything but never rejects
cleanupDropsError(e, err) ==
    [e EXCEPT !.timer = FALSE, !.dataL = FALSE, !.endL = FALSE, !.errL = FALSE]

\* err = <<>> stands for cleanup() without an argument
cleanup(e, err) ==
    LET d == [e EXCEPT !.timer = FALSE, !.dataL = FALSE,
                       !.endL = FALSE, !.errL = FALSE]
    IN IF err # <<>> THEN reject(d, err) ELSE d

endListener(e) == resolve(cleanup(e, <<>>), Trim(e.resp))

errorListener(e, text) == cleanup(e, <<TransportPrefix, text>>)

timeout(e) == cleanup(e, TimeoutMsg)

(* sendRequest, sentinel variant. *)

\* a data listener that resolves as soon as the buffer contains a newline
dataListenerSentinelAnyNL(e, data) ==
    LET r == e.resp \o data
    IN IF \E i \in 1..Len(r) : r[i] = NL
       THEN resolve([e EXCEPT !.resp = r, !.dataL = FALSE], Trim(r))
       ELSE [e EXCEPT !.resp = r]

\* a data listener that stays attached after it resolved
dataListenerSentinelStays(e, data) ==
    LET r == e.resp \o data
    IN IF EndsWithNL(r)
       THEN resolve([e EXCEPT !.resp = r], Trim(r))
       ELSE [e EXCEPT !.resp = r]

dataListenerSentinel(e, data) ==
    LET r == e.resp \o data
    IN IF EndsWithNL(r)
       THEN resolve([e EXCEPT !.resp = r, !.dataL = FALSE], Trim(r))
       ELSE [e EXCEPT !.resp = r]

timeoutSentinel(e) ==
    reject([e EXCEPT !.timer = FALSE, !.dataL = FALSE], TimeoutMsg)

\* an error listener that clears the timer and leaves the promise pending
errorOnceSentinelNoReject(e, text) ==
    [e EXCEPT !.errL = FALSE, !.timer = FALSE]

\* socket.once('error', ...): removed when invoked; clears the timer
errorOnceSentinel(e, text) ==
    reject([e EXCEPT !.errL = FALSE, !.timer = FALSE],
           <<TransportPrefixSentinel, text>>)

\* a write whose data listener is attached in a later turn only
startExchangeDefersData(e, s) ==
    [e EXCEPT !.phase = "exchange", !.sock = s, !.resp = <<>>,
              !.dataL = FALSE, !.errL = TRUE, !.timer = TRUE,
              !.endL = (variant = "halfclose"),
              !.halfClosed = (variant = "halfclose"),
              !.prior = {d \in Calls : /\ ex[d].phase = "exchange"
                                       /\ ex[d].sock = s
                                       /\ ex[d].outcome # "none"}]

\* The write and the executor of the response promise.
startExchange(e, s) ==
    [e EXCEPT !.phase = "exchange", !.sock = s, !.resp = <<>>,
              !.dataL = TRUE, !.errL = TRUE, !.timer = TRUE,
              !.endL = (variant = "halfclose"),
              !.halfClosed = (variant = "halfclose"),
              !.prior = {d \in Calls : /\ ex[d].phase = "exchange"
                                       /\ ex[d].sock = s
                                       /\ ex[d].outcome # "none"}]

\* The catch block of sendRequest, reached when ensureConnection rejects.
catchBlock(e, text) ==
    [e EXCEPT !.phase = "caught", !.outcome = "rejected",
              !.errMsg = <<CatchPrefix, ConnErrPrefix, text>>]

-----------------------------------------------------------------------------
(* Delivery of one event to the handlers of call c, in the state exs.  *)

Busy(exs, c) ==
    \E d \in Calls :
        /\ exs[d].phase = "exchange" /\ exs[d].sock = exs[c].sock
        /\ exs[d].outcome = "none" /\ c \in exs[d].prior

Invoke(exs, c, kind, after) ==
    IF exs[c].outcome # "none"
    THEN [after EXCEPT !.late = @ \cup {kind},
                       !.intruded = @ \/ Busy(exs, c)]
    ELSE after

\* The socket emits the chunk whether or not a listener is attached.
Emitted(e, s, data) ==
    IF e.phase = "exchange" /\ e.sock = s /\ e.outcome = "none"
    THEN [e EXCEPT !.heard = Append(@, data)] ELSE e

OnData(exs, c, s, data) ==
    IF exs[c].sock = s /\ exs[c].dataL
    THEN Invoke(exs, c, "data",
                IF variant = "halfclose"
                THEN dataListener(Emitted(exs[c], s, data), data)
                ELSE dataListenerSentinel(Emitted(exs[c], s, data), data))
    ELSE Emitted(exs[c], s, data)

OnEnd(exs, c, s) ==
    IF exs[c].sock = s /\ exs[c].endL
    THEN Invoke(exs, c, "end", endListener(exs[c]))
    ELSE exs[c]

OnError(exs, c, s, text) ==
    IF exs[c].sock = s /\ exs[c].phase = "connecting"
    THEN catchBlock(exs[c], text)
    ELSE IF exs[c].sock = s /\ exs[c].errL
    THEN Invoke(exs, c, "error",
                IF variant = "halfclose" THEN errorListener(exs[c], text)
                ELSE errorOnceSentinel(exs[c], text))
    ELSE exs[c]

OnTimer(exs, c) ==
    Invoke(exs, c, "timer", IF variant = "halfclose" THEN timeout(exs[c])
                            ELSE timeoutSentinel(exs[c]))

-----------------------------------------------------------------------------
(* The connection manager and the platform's events. *)

Waiters(s) == {c \in Calls : ex[c].phase = "connecting" /\ ex[c].sock = s}
Exchanges(s) == {c \in Calls : ex[c].phase = "exchange" /\ ex[c].sock = s}
Pending(s) == {c \in Exchanges(s) : ex[c].outcome = "none"}

Started(W, s) ==
    [c \in Calls |-> IF c \in W THEN startExchange(ex[c], s) ELSE ex[c]]

\* socket.end(requestData) on a socket whose send direction was already
\* ended makes the platform destroy the socket with a 'write after end' error.
WriteFails(W, s) ==
    variant = "halfclose" /\ Cardinality(W) + Cardinality(Exchanges(s)) >= 2

\* an error handler that forgets to clear this.connectionPromise
ErrorEventKeepsPromise(exs, s, text, was) ==
    /\ sock' = [sock EXCEPT ![s] = "errored"]
    /\ client' = 0
    /\ UNCHANGED connectionPromise
    /\ notified' = notified \cup {<<s, was, text>>}
    /\ ex' = [c \in Calls |-> OnError(exs, c, s, text)]

\* The handlers ensureConnection registered with socket.on('error') and
\* socket.on('close'), and the exchanges' error listeners.
ErrorEvent(exs, s, text, was) ==
    /\ sock' = [sock EXCEPT ![s] = "errored"]
    /\ client' = 0
    /\ connectionPromise' = 0
    /\ notified' = notified \cup {<<s, was, text>>}
    /\ ex' = [c \in Calls |-> OnError(exs, c, s, text)]

\* The calls W continue after await ensureConnection() with socket s.
Continue(W, s) ==
    IF WriteFails(W, s)
    THEN /\ ErrorEvent(Started(W, s), s, WriteAfterEnd, "open")
         /\ dropped' = TRUE
    ELSE /\ ex' = Started(W, s)
         /\ sock' = [sock EXCEPT ![s] = "open"]
         /\ UNCHANGED notified

NextCall == CHOOSE c \in Calls : ex[c].phase = "new" /\
                \A d \in Calls : ex[d].phase = "new" => c <= d
NextSocket == CHOOSE s \in Sockets : sock[s] = "unused" /\
                \A r \in Sockets : sock[r] = "unused" => s <= r

\* ensureConnection as called by sendRequest call c; when it returns the
\* live client the call goes on to its write in the same turn.
ensureConnection(c) ==
    IF client # 0 /\ ~Destroyed(client)
    THEN /\ IF WriteFails({c}, client)
            THEN TRUE
            ELSE UNCHANGED <<client, connectionPromise>> /\ dropped' = FALSE
         /\ Continue({c}, client)
    ELSE IF connectionPromise # 0
    THEN /\ ex' = [ex EXCEPT ![c].phase = "connecting",
                             ![c].sock = connectionPromise]
         /\ dropped' = FALSE
         /\ UNCHANGED <<sock, client, connectionPromise, notified>>
    ELSE /\ \E s \in Sockets : sock[s] = "unused"
         /\ sock' = [sock EXCEPT ![NextSocket] = "connecting"]
         /\ connectionPromise' = NextSocket
         /\ ex' = [ex EXCEPT ![c].phase = "connecting", ![c].sock = NextSocket]
         /\ dropped' = FALSE
         /\ UNCHANGED <<client, notified>>

sendRequest(c) ==
    /\ ex[c].phase = "new"
    /\ c = NextCall
    /\ ensureConnection(c)
    /\ UNCHANGED variant

ConnectSuccess(s) ==
    /\ sock[s] = "connecting"
    /\ UNCHANGED variant
    /\ IF WriteFails(Waiters(s), s)
       THEN TRUE
       ELSE client' = s /\ connectionPromise' = 0 /\ UNCHANGED dropped
    /\ Continue(Waiters(s), s)

SocketError(s, text) ==
    /\ sock[s] \in {"connecting", "open", "ended"}
    /\ text \in (IF sock[s] = "connecting" THEN ConnectErrTexts ELSE StreamErrTexts)
    /\ ErrorEvent(ex, s, text, sock[s])
    /\ dropped' = (dropped \/ client = s)
    /\ UNCHANGED variant

SocketEnd(s) ==
    /\ sock[s] = "open"
    /\ sock' = [sock EXCEPT ![s] = "ended"]
    /\ client' = 0
    /\ ex' = [c \in Calls |-> OnEnd(ex, c, s)]
    /\ dropped' = (dropped \/ client = s)
    /\ UNCHANGED <<variant, connectionPromise, notified>>

SocketClose(s) ==
    /\ sock[s] = "ended"
    /\ sock' = [sock EXCEPT ![s] = "closed"]
    /\ client' = 0
    /\ dropped' = (dropped \/ client = s)
    /\ UNCHANGED <<variant, connectionPromise, ex, notified>>

\* One 'data' event of socket s; no buffer grows beyond cap characters.
SocketData(s, data, cap) ==
    /\ sock[s] = "open"
    /\ \A c \in Calls : ex[c].sock = s /\ (ex[c].dataL \/ ex[c].outcome = "none")
            => Len(ex[c].resp) + Len(data) <= cap
    /\ ex' = [c \in Calls |-> OnData(ex, c, s, data)]
    /\ UNCHANGED <<variant, sock, client, connectionPromise, notified, dropped>>

\* a timer handler that also destroys the socket and forgets it
TimerFireDestroys(c) ==
    /\ ex[c].timer
    /\ ex' = [ex EXCEPT ![c] = OnTimer(ex, c)]
    /\ sock' = [sock EXCEPT ![ex[c].sock] = "closed"]
    /\ client' = IF client = ex[c].sock THEN 0 ELSE client
    /\ UNCHANGED <<variant, connectionPromise, notified, dropped>>

TimerFire(c) ==
    /\ ex[c].timer
    /\ ex' = [ex EXCEPT ![c] = OnTimer(ex, c)]
    /\ UNCHANGED <<variant, sock, client, connectionPromise, notified, dropped>>

Init ==
    /\ variant \in Variants
    /\ sock = [s \in Sockets |-> "unused"]
    /\ client = 0
    /\ connectionPromise = 0
    /\ ex = [c \in Calls |-> NewCall]
    /\ notified = {}
    /\ dropped = FALSE

Next ==
    \/ \E c \in 1..MaxCalls : sendRequest(c)
    \/ \E s \in Sockets : ConnectSuccess(s)
    \/ \E s \in Sockets, text \in ErrTexts : SocketError(s, text)
    \/ \E s \in Sockets : SocketEnd(s)
    \/ \E s \in Sockets : SocketClose(s)
    \/ \E s \in Sockets, data \in Chunks : SocketData(s, data, MaxBuf)
    \/ \E c \in Calls : TimerFire(c)

Spec == Init /\ [][Next]_vars

\* The same system with fewer calls, and a timer that stays armed fires.
FairNext ==
    \/ \E c \in 1..MaxFairCalls : sendRequest(c)
    \/ \E s \in Sockets : ConnectSuccess(s)
    \/ \E s \in Sockets, text \in ErrTexts : SocketError(s, text)
    \/ \E s \in Sockets : SocketEnd(s)
    \/ \E s \in Sockets : SocketClose(s)
    \/ \E s \in Sockets, data \in Chunks : SocketData(s, data, MaxBuf)
    \/ \E c \in Calls : TimerFire(c)

FairSpec ==
    Init /\ [][FairNext]_vars /\ \A c \in Calls : WF_vars(TimerFire(c))

-----------------------------------------------------------------------------
(* sendToServer: one socket per call, no connection manager.  The call     *)
(* record is used as for sendRequest; the listeners are attached when the  *)
(* socket is created and never removed, and there is no timer.             *)

ServerErrPrefix == "Socket connection failed: "

\* JSON.parse(responseData) followed by result.code || responseData: the
\* code field when the text is the object, the text itself when parsing
\* throws or there is no code.
CodeOrRaw(r) ==
    IF TrimStart(TrimEnd(r)) = <<CodeObj>> THEN <<"a">> ELSE r

ServerCall(s) == {c \in Calls : ex[c].phase # "new" /\ ex[c].sock = s}

sendToServer(c) ==
    /\ ex[c].phase = "new"
    /\ c = NextCall
    /\ \E s \in Sockets : sock[s] = "unused"
    /\ sock' = [sock EXCEPT ![NextSocket] = "connecting"]
    /\ ex' = [ex EXCEPT ![c] = [@ EXCEPT !.phase = "connecting",
                                         !.sock = NextSocket, !.dataL = TRUE,
                                         !.endL = TRUE, !.errL = TRUE]]
    /\ UNCHANGED <<variant, client, connectionPromise, notified, dropped>>

\* the connect callback: client.write(JSON.stringify(dataToSend))
ServerConnected(s) ==
    /\ sock[s] = "connecting"
    /\ sock' = [sock EXCEPT ![s] = "open"]
    /\ ex' = [c \in Calls |-> IF c \in ServerCall(s)
                              THEN [ex[c] EXCEPT !.phase = "exchange",
                                                 !.halfClosed = FALSE]
                              ELSE ex[c]]
    /\ UNCHANGED <<variant, client, connectionPromise, notified, dropped>>

ServerData(s, data) ==
    /\ sock[s] = "open"
    /\ \A c \in ServerCall(s) : Len(ex[c].resp) + Len(data) <= MaxBuf
    /\ ex' = [c \in Calls |-> IF c \in ServerCall(s)
                              THEN dataListener(Emitted(ex[c], s, data), data)
                              ELSE ex[c]]
    /\ UNCHANGED <<variant, sock, client, connectionPromise, notified, dropped>>

ServerEnd(s) ==
    /\ sock[s] = "open"
    /\ sock' = [sock EXCEPT ![s] = "ended"]
    /\ ex' = [c \in Calls |-> IF c \in ServerCall(s)
                              THEN resolve(ex[c], CodeOrRaw(ex[c].resp))
                              ELSE ex[c]]
    /\ UNCHANGED <<variant, client, connectionPromise, notified, dropped>>

\* showErrorMessage, client.destroy(), reject
ServerError(s, text) ==
    /\ sock[s] \in {"connecting", "open", "ended"}
    /\ text \in (IF sock[s] = "connecting" THEN ConnectErrTexts ELSE StreamErrTexts)
    /\ sock' = [sock EXCEPT ![s] = "errored"]
    /\ notified' = notified \cup {<<s, sock[s], text>>}
    /\ ex' = [c \in Calls |-> IF c \in ServerCall(s)
                              THEN reject(ex[c], <<ServerErrPrefix, text>>)
                              ELSE ex[c]]
    /\ UNCHANGED <<variant, client, connectionPromise, dropped>>

ServerClose(s) ==
    /\ sock[s] = "ended"
    /\ sock' = [sock EXCEPT ![s] = "closed"]
    /\ UNCHANGED <<variant, client, connectionPromise, ex, notified, dropped>>

\* sendToServer is exported by the file of the sentinel variant.
ServerInit == Init /\ variant = "sentinel"

ServerNext ==
    \/ \E c \in 1..MaxServerCalls : sendToServer(c)
    \/ \E s \in Sockets : ServerConnected(s)
    \/ \E s \in Sockets, data \in ServerChunks : ServerData(s, data)
    \/ \E s \in Sockets : ServerEnd(s)
    \/ \E s \in Sockets, text \in ErrTexts : ServerError(s, text)
    \/ \E s \in Sockets : ServerClose(s)

ServerSpec == ServerInit /\ [][ServerNext]_vars

\* What the platform guarantees: a connect attempt ends, by the connect
\* callback or by 'error', and 'close' follows 'end'.  sendToServer arms no
\* timer, and nothing obliges the server to send or to end its stream.
ConnectOutcome(s) ==
    ServerConnected(s) \/ \E text \in ConnectErrTexts : ServerError(s, text)

ServerFairSpec ==
    /\ ServerInit /\ [][ServerNext]_vars
    /\ \A s \in Sockets : WF_vars(ConnectOutcome(s)) /\ WF_vars(ServerClose(s))

-----------------------------------------------------------------------------
\* One exchange's response stream in detail: one call, longer chunks over a
\* larger alphabet.
DataNext ==
    \/ \E c \in 1..MaxDataCalls : sendRequest(c)
    \/ \E s \in Sockets : ConnectSuccess(s)
    \/ \E s \in Sockets, text \in ErrTexts : SocketError(s, text)
    \/ \E s \in Sockets : SocketEnd(s)
    \/ \E s \in Sockets : SocketClose(s)
    \/ \E s \in Sockets, data \in DataChunks : SocketData(s, data, MaxDataBuf)
    \/ \E c \in Calls : TimerFire(c)

DataSpec == Init /\ [][DataNext]_vars

\* ... and a timer that stays armed fires.
DataFairSpec ==
    Init /\ [][DataNext]_vars /\ \A c \in Calls : WF_vars(TimerFire(c))

\* The connection life cycle alone: no response data and no timer expiry.
ConnNext ==
    \/ \E c \in Calls : sendRequest(c)
    \/ \E s \in Sockets : ConnectSuccess(s)
    \/ \E s \in Sockets, text \in ErrTexts : SocketError(s, text)
    \/ \E s \in Sockets : SocketEnd(s)
    \/ \E s \in Sockets : SocketClose(s)

ConnSpec == Init /\ [][ConnNext]_vars

TypeOK ==
    /\ variant \in Variants
    /\ client \in 0..MaxSockets
    /\ connectionPromise \in 0..MaxSockets
    /\ connectionPromise # 0 => sock[connectionPromise] = "connecting"
    /\ client # 0 => sock[client] = "open" /\ connectionPromise = 0

-----------------------------------------------------------------------------
(* Properties. *)

\* socket.connect calls issued so far
NumConnects == Cardinality({s \in Sockets : sock[s] # "unused"})

\* this step is (or contains) the sendRequest call c
Starts(c) == ex[c].phase = "new" /\ ex'[c].phase # "new"

ExchangeKinds == {"success", "timeout", "transport"}

(* C1: at most one socket of the manager is connected and live, and at     *)
(* most one has a connect attempt pending.                                 *)
C1_SingleConnection ==
    /\ Cardinality({s \in Sockets : sock[s] = "open"}) <= 1
    /\ Cardinality({s \in Sockets : sock[s] = "connecting"}) <= 1

(* C2: calls made while a connect attempt is pending share that attempt:   *)
(* all calls suspended in ensureConnection wait for one and the same       *)
(* socket, so one socket.connect serves them all.                          *)
C2_Coalesced ==
    \A c1, c2 \in Calls :
        ex[c1].phase = "connecting" /\ ex[c2].phase = "connecting"
            => ex[c1].sock = ex[c2].sock

(* C3: every exchange gets exactly one of success, timeout failure and     *)
(* transport failure: a delivered outcome never changes, and with timers   *)
(* that fire, every exchange eventually has one.                           *)
C3_ExactlyOneOutcome ==
    /\ [][\A c \in Calls :
            ex[c].phase = "exchange" /\ ex[c].outcome # "none"
                => /\ ex'[c].outcome = ex[c].outcome
                   /\ ex'[c].result = ex[c].result
                   /\ ex'[c].errMsg = ex[c].errMsg]_vars
    /\ [](\A c \in Calls :
            ex[c].phase = "exchange" /\ ex[c].outcome # "none"
                => Kind(ex[c]) \in ExchangeKinds)
    /\ \A c \in Calls :
            (ex[c].phase = "exchange") ~> (Kind(ex[c]) \in ExchangeKinds)

C3_Witness ==
    \E c1, c2 \in Calls :
        /\ Kind(ex[c1]) = "success" /\ ex[c1].phase = "exchange"
        /\ Kind(ex[c2]) \in {"timeout", "transport"} /\ ex[c2].phase = "exchange"
        /\ ex[c2].resp # <<>>

(* C4: the listeners and the timer of a completed exchange are gone, so   *)
(* that no handler of a completed exchange is invoked while a later        *)
(* exchange is pending on the same connection.                             *)
C4_CleanupComplete ==
    \A c \in Calls : ~ex[c].intruded

(* C5: at most one exchange is pending on a connection at any time.        *)
C5_OneExchangePerConnection ==
    \A s \in Sockets : Cardinality(Pending(s)) <= 1

(* C6: after an exchange failed by timeout, none of its data, end or       *)
(* error listeners is invoked again.                                       *)
C6_NoListenerAfterTimeout ==
    \A c \in Calls :
        Kind(ex[c]) = "timeout" => ex[c].late \cap {"data", "end", "error"} = {}

(* C7: a socket error during a pending exchange makes the exchange fail    *)
(* with a transport error, and it stays a transport failure.               *)
C7_ErrorPrecedence ==
    /\ [][\A c \in Calls :
            /\ ex'[c].phase = "exchange" /\ ex[c].outcome = "none"
            /\ sock[ex'[c].sock] # "errored" /\ sock'[ex'[c].sock] = "errored"
            => Kind(ex'[c]) = "transport"]_vars
    /\ [][\A c \in Calls :
            Kind(ex[c]) = "transport" => Kind(ex'[c]) = "transport"]_vars

C7_Witness ==
    \E c \in Calls :
        /\ Kind(ex[c]) = "transport" /\ ex[c].resp # <<>>
        /\ ex[c].errMsg[2] \in StreamErrTexts
        /\ sock[ex[c].sock] = "errored"

(* C8: while a connection the manager established is live, a sendRequest   *)
(* call issues no socket.connect and uses a live connection.               *)
C8_ReuseLive ==
    [][\A c \in Calls :
            Starts(c) /\ (\E s \in Sockets : sock[s] = "open")
                => NumConnects' = NumConnects /\ sock[ex'[c].sock] = "open"]_vars

(* C9: when the current connection emits end or close the record of it is  *)
(* cleared, and the next sendRequest call issues exactly one connect.      *)
C9_ReconnectAfterClose ==
    [][/\ \A s \in Sockets : client = s /\ sock'[s] # "open" => client' = 0
       /\ \A c \in Calls : Starts(c) /\ dropped
            => NumConnects' = NumConnects + 1]_vars

(* C10: a failed connect attempt leaves client and connectionPromise null, *)
(* fails every call waiting for it with a connection error carrying the    *)
(* underlying text, writes no request for them, and no connect is issued   *)
(* except by a sendRequest call.                                           *)
C10_ConnectFailure ==
    /\ [][\A s \in Sockets, text \in ErrTexts :
            <<s, "connecting", text>> \in notified' \ notified
                => /\ client' = 0 /\ connectionPromise' = 0
                   /\ NumConnects' = NumConnects
                   /\ \A c \in Waiters(s) :
                        /\ Kind(ex'[c]) = "connection"
                        /\ ex'[c].errMsg = <<CatchPrefix, ConnErrPrefix, text>>
                        /\ ex'[c].phase = "caught"
                        /\ ~ex'[c].dataL /\ ~ex'[c].timer]_vars
    /\ [][\A c \in Calls : ex[c].phase = "caught" => ex'[c] = ex[c]]_vars
    /\ [][NumConnects' # NumConnects => \E c \in Calls : Starts(c)]_vars

C10_Witness ==
    \E c1, c2 \in Calls :
        /\ c1 # c2 /\ ex[c1].sock = ex[c2].sock
        /\ Kind(ex[c1]) = "connection" /\ Kind(ex[c2]) = "connection"
        /\ client = 0 /\ connectionPromise = 0

\* Everything the socket emitted for exchange e, and its first k chunks.
Heard(e) == Concat(e.heard, 1, Len(e.heard))
HeardUpTo(e, k) == Concat(e.heard, 1, k)

(* C11: in the half-close variant, when the remote end of stream arrives   *)
(* for a pending exchange the exchange resolves, and the resolved value is *)
(* the concatenation, in arrival order, of all chunks the socket emitted   *)
(* since the request was written, trimmed of leading and trailing          *)
(* whitespace.                                                             *)
C11_StreamEndFraming ==
    /\ [](\A c \in Calls :
            variant = "halfclose" /\ Kind(ex[c]) = "success"
                => ex[c].result = Trim(Heard(ex[c])))
    /\ [][\A c \in Calls :
            /\ variant = "halfclose"
            /\ ex[c].phase = "exchange" /\ ex[c].outcome = "none"
            /\ sock[ex[c].sock] = "open" /\ sock'[ex[c].sock] = "ended"
            => Kind(ex'[c]) = "success"]_vars

\* chunks "a" and "b\n" followed by end of stream gave "ab"
C11_Witness ==
    \E c \in Calls :
        /\ variant = "halfclose" /\ Kind(ex[c]) = "success"
        /\ ex[c].heard = << <<"a">>, <<"b", NL>> >>
        /\ ex[c].result = <<"a", "b">>
        /\ sock[ex[c].sock] = "ended"

(* C12: in the sentinel variant an exchange stays pending while no data    *)
(* event has left the buffer ending with a newline; it resolves at the     *)
(* first data event that does, with the chunks up to and including that    *)
(* event, without the final newline and trimmed; afterwards neither the    *)
(* result nor the buffer of that exchange changes.                         *)
C12_SentinelFraming ==
    /\ [](\A c \in Calls :
            variant = "sentinel" /\ ex[c].phase = "exchange"
            /\ Kind(ex[c]) \in {"none", "success"}
            => \A k \in 1..Len(ex[c].heard) :
                  EndsWithNL(HeardUpTo(ex[c], k))
                      <=> (k = Len(ex[c].heard) /\ Kind(ex[c]) = "success"))
    /\ [](\A c \in Calls :
            variant = "sentinel" /\ Kind(ex[c]) = "success"
            => /\ ex[c].heard # <<>>
               /\ ex[c].resp = Heard(ex[c])
               /\ ex[c].result =
                      Trim(SubSeq(Heard(ex[c]), 1, Len(Heard(ex[c])) - 1)))
    /\ [][\A c \in Calls :
            variant = "sentinel" /\ Kind(ex[c]) = "success"
            => ex'[c].result = ex[c].result /\ ex'[c].resp = ex[c].resp]_vars

\* chunks "\na" and "\n" gave "a"; the socket went on to end
C12_Witness ==
    \E c \in Calls :
        /\ variant = "sentinel" /\ Kind(ex[c]) = "success"
        /\ ex[c].heard = << <<NL, "a">>, <<NL>> >>
        /\ ex[c].result = <<"a">>
        /\ sock[ex[c].sock] = "ended"

(* C13: every showErrorMessage call reports the failure of a connect      *)
(* attempt: the socket that emitted the error had not connected yet.       *)
C13_NotifyOnlyConnectFailure ==
    \A n \in notified : n[2] = "connecting"

(* C14: in the step in which the current connection stops being open      *)
(* (its end, close or error event) while an exchange is pending on it, the *)
(* manager clears its client reference and that exchange completes, by     *)
(* its success path or its transport-failure path.                         *)
C14_ExchangeEndsWithConnection ==
    [][\A s \in Sockets : \A c \in Pending(s) :
          client = s /\ sock[s] = "open" /\ sock'[s] # "open"
          => client' = 0 /\ Kind(ex'[c]) \in {"success", "transport"}]_vars

(* C15: an end, close or error event of a connected socket that is        *)
(* neither the manager's current connection nor its pending connect        *)
(* attempt leaves this.client and this.connectionPromise as they were.     *)
C15_StaleEventsIgnored ==
    [][\A s \in Sockets :
          /\ s # client /\ s # connectionPromise
          /\ sock[s] \in {"open", "ended"}
          /\ sock'[s] \in {"ended", "closed", "errored"}
          /\ sock'[s] # sock[s]
          => client' = client /\ connectionPromise' = connectionPromise]_vars

\* The number of socket.end(requestData) calls made on socket s: one by
\* every half-close sendRequest that got as far as its write with s.
EndCalls(s) == IF variant = "halfclose" THEN Cardinality(Exchanges(s)) ELSE 0

(* C16: in the half-close variant socket.end(requestData) is called at     *)
(* most once on every socket.                                              *)
C16_EndOncePerSocket ==
    \A s \in Sockets : EndCalls(s) <= 1

(* C17: an exchange that completes on the remote end of stream has ended  *)
(* its own send direction with the request, and an exchange that keeps     *)
(* its send direction open completes on the newline sentinel, not on the   *)
(* end of stream.                                                          *)
C17_DisciplineMatchesTermination ==
    \A c \in Calls :
        ex[c].phase = "exchange" /\ ex[c].outcome = "none"
            => (ex[c].endL <=> ex[c].halfClosed)

C19_ListenersAttachedWithWrite ==
    /\ [][\A c \in Calls :
            /\ ex[c].phase # "exchange" /\ ex'[c].phase = "exchange"
            /\ ex'[c].outcome = "none"
            => /\ ex'[c].dataL /\ ex'[c].errL
               /\ (variant = "halfclose" => ex'[c].endL)
               /\ ex'[c].resp = <<>>]_vars
    /\ [](\A c \in Calls :
            ex[c].phase = "exchange" /\ ex[c].outcome = "none"
            => ex[c].dataL /\ ex[c].resp = Heard(ex[c]))

\* a second exchange on a connection, pending, with two chunks buffered
C19_Witness ==
    \E c \in Calls :
        /\ ex[c].phase = "exchange" /\ ex[c].outcome = "none"
        /\ ex[c].prior # {}
        /\ Len(ex[c].heard) = 2 /\ ex[c].resp = <<"a", "a">>

\* No 'data' event of exchange e left the accumulated text ending with a
\* newline.
NeverEndedNL(e) ==
    \A k \in 1..Len(e.heard) : ~EndsWithNL(HeardUpTo(e, k))

(* C20: in the sentinel variant every pending exchange completes, and an   *)
(* exchange that has completed although no data event left its buffer      *)
(* ending with a newline, on a socket that has not failed, has failed      *)
(* with the timeout error, whatever it received.                           *)
C20_SentinelTimeout ==
    /\ \A c \in Calls :
          (variant = "sentinel" /\ ex[c].phase = "exchange")
              ~> (ex[c].outcome # "none")
    /\ [](\A c \in Calls :
            /\ variant = "sentinel"
            /\ ex[c].phase = "exchange" /\ ex[c].outcome # "none"
            /\ NeverEndedNL(ex[c])
            /\ sock[ex[c].sock] # "errored"
            => Kind(ex[c]) = "timeout")

\* chunks "\na" and "b" arrived, then the timer fired
C20_Witness ==
    \E c \in Calls :
        /\ variant = "sentinel" /\ Kind(ex[c]) = "timeout"
        /\ ex[c].heard = << <<NL, "a">>, <<"b">> >>
        /\ sock[ex[c].sock] = "open"

(* C21: in the half-close variant, when the text the socket delivered     *)
(* ends with a newline at the remote end of stream, the resolved value     *)
(* ends with that newline.                                                 *)
C21_TrailingNewlineKept ==
    \A c \in Calls :
        /\ variant = "halfclose" /\ Kind(ex[c]) = "success"
        /\ EndsWithNL(Heard(ex[c]))
        => EndsWithNL(ex[c].result)

(* C22: every sendToServer call that was made eventually settles: its     *)
(* promise is resolved or rejected.                                        *)
C22_EverySendSettles ==
    \A c \in Calls : (ex[c].phase # "new") ~> (ex[c].outcome # "none")

(* C23: every sendRequest call that failed went through the catch block   *)
(* of sendRequest, and the message of its error begins with                *)
(* 'Failed to send request to local server: '.                             *)
C23_FailuresThroughCatch ==
    \A c \in Calls :
        ex[c].outcome = "rejected"
            => ex[c].phase = "caught" /\ Head(ex[c].errMsg) = CatchPrefix

=============================================================================
